---- MODULE Spec2Model ----
(* Model of src/async.py: async_process_excel and its two nested coroutines *)
(* process_text and process_batch, run on a single asyncio event loop.      *)
EXTENDS Integers, Sequences, FiniteSets, TLC

(* ------------------------------------------------------------------ *)
(* Bounds of the model                                                  *)
(* ------------------------------------------------------------------ *)
MaxRows == 3
MaxBatch == 3
MaxConc == 2
FileColumns == 7

(* ------------------------------------------------------------------ *)
(* Parameters of the invocation and of the loader                       *)
(* ------------------------------------------------------------------ *)
source_column == 6
target_column == 12
required_columns == 13

(* ------------------------------------------------------------------ *)
(* Cell values and the Python operations process_text applies to them   *)
(* ------------------------------------------------------------------ *)
\* A str cell: val is the sequence of its characters.
Str(s) == [type |-> "str", val |-> s]

\* The missing-value marker pd.read_excel delivers for a cell without value.
NaN == [type |-> "float", val |-> <<>>]

\* Source-column values the runs are checked on: "", " ", " b", NaN.
CellValues == {Str(<<>>), Str(<<" ">>), Str(<<" ", "b">>), NaN}

\* str.strip() whitespace.
IsSpace(c) == c \in {" ", "\t", "\n"}

RECURSIVE LStrip(_)
LStrip(s) == IF s = <<>> THEN <<>>
             ELSE IF IsSpace(Head(s)) THEN LStrip(Tail(s)) ELSE s

RECURSIVE RStrip(_)
RStrip(s) == IF s = <<>> THEN <<>>
             ELSE IF IsSpace(s[Len(s)]) THEN RStrip(SubSeq(s, 1, Len(s) - 1)) ELSE s

\* s.strip()
Strip(s) == RStrip(LStrip(s))

\* bool(x): a str is falsy iff empty; float nan is truthy.
Truthy(x) == IF x.type = "str" THEN x.val # <<>> ELSE TRUE

\* str(x): a str is itself; float nan prints as "nan".
PyStr(x) == IF x.type = "str" THEN x.val ELSE <<"n", "a", "n">>

\* The test without its strip half.
NeedsCallNoStrip(text) == Truthy(text)

\* The guard of line 47 being false: `not text or not str(text).strip()`.
NeedsCall(text) == ~(~Truthy(text) \/ Strip(PyStr(text)) = <<>>)

(* ------------------------------------------------------------------ *)
(* The remote endpoint as seen by session.post                          *)
(* ------------------------------------------------------------------ *)
OK200 == [transport |-> "ok", status |-> 200, body |-> "wellformed"]
Bad200 == [transport |-> "ok", status |-> 200, body |-> "malformed"]
Err500 == [transport |-> "ok", status |-> 500, body |-> "wellformed"]
Err500Unreadable == [transport |-> "ok", status |-> 500, body |-> "unreadable"]
Timeout == [transport |-> "timeout", status |-> 0, body |-> "none"]
ConnError == [transport |-> "conn_error", status |-> 0, body |-> "none"]

Responses == {OK200, Bad200, Err500, Err500Unreadable, Timeout, ConnError}

\* What a response is for its caller: "usable" iff it has status 200 and a body
\* holding choices[0].message.content, "failure" otherwise.
RespClass(r) ==
    IF r.transport = "ok" /\ r.status = 200 /\ r.body = "wellformed"
    THEN "usable" ELSE "failure"

\* choices[0].message.content of a well-formed answer to the prompt wrapping s.
Content(s) == Str(s \o <<"!">>)

\* A try block without the status test: any readable body is parsed as an answer.
TryBodyIgnoresStatus(text, r) ==
    IF r.transport = "timeout"
    THEN [exc |-> "TimeoutError", value |-> text, logged |-> FALSE]
    ELSE IF r.transport = "conn_error"
    THEN [exc |-> "ClientError", value |-> text, logged |-> FALSE]
    ELSE IF r.body = "wellformed"
    THEN [exc |-> "none", value |-> Content(PyStr(text)), logged |-> FALSE]
    ELSE [exc |-> "KeyError", value |-> text, logged |-> FALSE]

\* The body of the try block, lines 65-76: the exception it ends with
\* ("none" when it returns), the value it returns and whether it printed.
TryBody(text, r) ==
    IF r.transport = "timeout"
    THEN [exc |-> "TimeoutError", value |-> text, logged |-> FALSE]
    ELSE IF r.transport = "conn_error"
    THEN [exc |-> "ClientError", value |-> text, logged |-> FALSE]
    ELSE IF r.status = 200
    THEN IF r.body = "wellformed"
         THEN [exc |-> "none", value |-> Content(PyStr(text)), logged |-> FALSE]
         ELSE [exc |-> "KeyError", value |-> text, logged |-> FALSE]
    ELSE IF r.body = "unreadable"
         THEN [exc |-> "ClientPayloadError", value |-> text, logged |-> FALSE]
         ELSE [exc |-> "none", value |-> text, logged |-> TRUE]

\* A narrower handler: only transport errors are caught.
CaughtTransportOnly(exc) == exc \in {"TimeoutError", "ClientError"}

\* `except Exception`, line 77: every exception TryBody can end with is one.
Caught(exc) == exc \in {"TimeoutError", "ClientError", "KeyError", "ClientPayloadError"}

\* A handler that prints and forgets to return the text: the call yields None.
ProcessTextNoFallback(text, r) ==
    LET t == TryBody(text, r)
    IN IF t.exc = "none" THEN [raised |-> FALSE, value |-> t.value, logged |-> t.logged]
       ELSE [raised |-> FALSE, value |-> [type |-> "NoneType", val |-> <<>>], logged |-> TRUE]

\* process_text after the blank test, lines 64-79.
ProcessText(text, r) ==
    LET t == TryBody(text, r)
    IN IF t.exc = "none" THEN [raised |-> FALSE, value |-> t.value, logged |-> t.logged]
       ELSE IF Caught(t.exc) THEN [raised |-> FALSE, value |-> text, logged |-> TRUE]
       ELSE [raised |-> TRUE, value |-> text, logged |-> FALSE]

(* ------------------------------------------------------------------ *)
(* State                                                                *)
(* ------------------------------------------------------------------ *)
VARIABLES
    rows,            \* df.iloc[:, source_column] as loaded
    batch_size,
    max_concurrent,
    pc,              \* position of async_process_excel
    i,               \* the loop variable of line 96
    batch,           \* line 97
    permits,         \* value of the semaphore of line 89
    tasks,           \* the tasks gather runs for the current batch
    doneOrder,       \* positions of the current batch in completion order
    results,         \* line 92
    pbar,            \* rows reported to the progress bar
    launchOrder,     \* row indices (0-based) in the order session.post was called
    resp,            \* the class of response each row's call got ("none": no response)
    reran,           \* whether the program has been invoked before on this input
    prevResults,     \* results of the previous invocation
    prevResp,        \* responses of the previous invocation
    logged,          \* diagnostic lines printed for each row's call (lines 75, 78)
    sleeps,          \* pacing delays of line 104 that have elapsed
    df               \* the dataframe: df[r][c] is the cell of row r (1-based), column c

vars == <<rows, batch_size, max_concurrent, pc, i, batch, permits, tasks, doneOrder,
          results, pbar, launchOrder, resp, reran, prevResults, prevResp, logged, sleeps, df>>

total_rows == Len(rows)

Min(a, b) == IF a < b THEN a ELSE b

\* All sequences over S of length at most n.
SeqsUpTo(S, n) == UNION {[1..k -> S] : k \in 0..n}

\* A slice that takes its upper end too.
SliceInclusive(s, lo, hi) == SubSeq(s, lo + 1, Min(hi + 1, Len(s)))

\* df.iloc[lo:hi, source_column].tolist()
Slice(s, lo, hi) == SubSeq(s, lo + 1, Min(hi, Len(s)))

\* Column labels of the dataframe once it has been padded, lines 40-42.
Columns == 0..(IF FileColumns < required_columns THEN required_columns ELSE FileColumns) - 1

\* The dataframe of lines 38-42 for a sheet whose source column holds src: the
\* sheet's other cells hold "x", the columns added by the padding hold "".
LoadedDf(src) ==
    [r \in 1..Len(src) |->
        [c \in Columns |->
            IF c >= FileColumns THEN Str(<<>>)
            ELSE IF c = source_column THEN src[r]
            ELSE Str(<<"x">>)]]

\* An assignment that leaves out the column index: df.iloc[i] = result.
WriteWholeRow(d, res, col) ==
    [r \in 1..Len(d) |-> IF r <= Len(res) THEN [c \in DOMAIN d[r] |-> res[r]] ELSE d[r]]

\* Lines 107-108: df.iloc[i, col] = result for every i, result of enumerate(res).
WriteColumn(d, res, col) ==
    [r \in 1..Len(d) |-> IF r <= Len(res) THEN [d[r] EXCEPT ![col] = res[r]] ELSE d[r]]

\* Number of calls posted and not yet resolved.
InFlight == Cardinality({j \in 1..Len(tasks) : tasks[j].state = "inflight"})

Init ==
    /\ rows \in SeqsUpTo(CellValues, MaxRows)
    /\ batch_size \in 1..MaxBatch
    /\ max_concurrent \in 0..MaxConc
    /\ pc = "for"
    /\ i = 0
    /\ batch = <<>>
    /\ permits = max_concurrent
    /\ tasks = <<>>
    /\ doneOrder = <<>>
    /\ results = <<>>
    /\ pbar = 0
    /\ launchOrder = <<>>
    /\ resp = [k \in 1..Len(rows) |-> "none"]
    /\ reran = FALSE
    /\ prevResults = <<>>
    /\ prevResp = <<>>
    /\ logged = [k \in 1..Len(rows) |-> 0]
    /\ sleeps = 0
    /\ df = LoadedDf(rows)

(* ------------------------------------------------------------------ *)
(* asyncio primitives used by the runner                                *)
(* ------------------------------------------------------------------ *)
\* An acquire that also proceeds on an empty semaphore.
CanAcquireEmpty(p) == p >= 0

\* asyncio.Semaphore.acquire proceeds only while the value is positive.
CanAcquire(p) == p > 0

\* A release that gives nothing back.
ReleaseNothing(p) == p

\* Leaving `async with semaphore` gives the permit back.
Release(p) == p + 1

\* A gather that returns on the first completed task.
GatherFirstDone(ts) == \E j \in 1..Len(ts) : ts[j].state = "done"

\* asyncio.gather(*tasks) returns once every task has returned.
GatherDone(ts) == \A j \in 1..Len(ts) : ts[j].state = "done"

\* asyncio.gather raises as soon as one task has raised.
GatherRaised(ts) == \E j \in 1..Len(ts) : ts[j].state = "failed"

\* Results collected first come, first served; unfinished tasks come last.
ResultsByCompletion(ts, order) ==
    LET rest == SelectSeq([j \in 1..Len(ts) |-> j],
                          LAMBDA j : \A k \in 1..Len(order) : order[k] # j)
        all == order \o rest
    IN [j \in 1..Len(ts) |-> ts[all[j]].result]

\* The list asyncio.gather returns: the j-th element is the j-th task's result.
GatherResults(ts, order) == [j \in 1..Len(ts) |-> ts[j].result]

\* An update by the configured batch size instead of the batch's length.
PbarUpdateBySize(p, b) == p + batch_size

\* pbar.update(len(batch)), line 102.
PbarUpdate(p, b) == p + Len(b)

\* The lowest position whose task has not started: the loop's ready queue is FIFO.
Pending(ts) == {j \in 1..Len(ts) : ts[j].state = "pending"}

\* A ready queue served last in, first out.
LastPending(ts) == CHOOSE j \in Pending(ts) : \A k \in Pending(ts) : j >= k

FirstPending(ts) == CHOOSE j \in Pending(ts) : \A k \in Pending(ts) : j <= k

(* ------------------------------------------------------------------ *)
(* Actions                                                              *)
(* ------------------------------------------------------------------ *)
\* Lines 96-97: the next iteration of the for loop takes its slice, or the loop ends.
ForNext ==
    /\ pc = "for"
    /\ IF i < total_rows
       THEN /\ batch' = Slice(rows, i, i + batch_size)
            /\ pc' = "acquire"
       ELSE /\ batch' = batch
            /\ pc' = "done"
    /\ UNCHANGED <<rows, batch_size, max_concurrent, i, permits, tasks, doneOrder,
                   results, pbar, launchOrder, resp, reran, prevResults, prevResp, logged, sleeps, df>>

\* Lines 99-100 and 83-84: the runner enters the semaphore, process_batch builds
\* one process_text coroutine per text and gather schedules them.
Acquire ==
    /\ pc = "acquire"
    /\ CanAcquire(permits)
    /\ permits' = permits - 1
    /\ tasks' = [j \in 1..Len(batch) |->
                    [text |-> batch[j], state |-> "pending", result |-> batch[j]]]
    /\ doneOrder' = <<>>
    /\ pc' = "gather"
    /\ UNCHANGED <<rows, batch_size, max_concurrent, i, batch, results, pbar,
                   launchOrder, resp, reran, prevResults, prevResp, logged, sleeps, df>>

\* Lines 45-70: the event loop runs the next task up to its first suspension:
\* it returns at line 48, or posts its request and waits for the response.
StartTask ==
    /\ pc = "gather"
    /\ Pending(tasks) # {}
    /\ LET j == FirstPending(tasks)
       IN IF NeedsCall(tasks[j].text)
          THEN /\ tasks' = [tasks EXCEPT ![j].state = "inflight"]
               /\ launchOrder' = Append(launchOrder, i + j - 1)
               /\ doneOrder' = doneOrder
          ELSE /\ tasks' = [tasks EXCEPT ![j].state = "done", ![j].result = tasks[j].text]
               /\ launchOrder' = launchOrder
               /\ doneOrder' = Append(doneOrder, j)
    /\ UNCHANGED <<rows, batch_size, max_concurrent, pc, i, batch, permits, results,
                   pbar, resp, reran, prevResults, prevResp, logged, sleeps, df>>

\* Lines 70-79: the call of the task at position j resolves with response r.
Resolve(j, r) ==
    /\ pc = "gather"
    /\ j \in 1..Len(tasks)
    /\ tasks[j].state = "inflight"
    /\ LET out == ProcessText(tasks[j].text, r)
       IN /\ tasks' = [tasks EXCEPT ![j].state = IF out.raised THEN "failed" ELSE "done",
                                    ![j].result = out.value]
          /\ logged' = [logged EXCEPT ![i + j] = IF out.logged THEN @ + 1 ELSE @]
    /\ resp' = [resp EXCEPT ![i + j] = RespClass(r)]
    /\ doneOrder' = Append(doneOrder, j)
    /\ UNCHANGED <<rows, batch_size, max_concurrent, pc, i, batch, permits, results,
                   pbar, launchOrder, reran, prevResults, prevResp, sleeps, df>>

\* A runner without line 104: after a batch it goes straight to the next one.
GatherReturnNoPause ==
    /\ pc = "gather"
    /\ GatherRaised(tasks) \/ GatherDone(tasks)
    /\ IF GatherRaised(tasks)
       THEN /\ pc' = "error"
            /\ tasks' = [j \in 1..Len(tasks) |->
                            IF tasks[j].state \in {"pending", "inflight"}
                            THEN [tasks[j] EXCEPT !.state = "cancelled"]
                            ELSE tasks[j]]
            /\ UNCHANGED <<results, pbar, doneOrder, i>>
       ELSE /\ pc' = "for"
            /\ i' = i + batch_size
            /\ results' = results \o GatherResults(tasks, doneOrder)
            /\ pbar' = PbarUpdate(pbar, batch)
            /\ tasks' = <<>>
            /\ doneOrder' = doneOrder
    /\ permits' = Release(permits)
    /\ UNCHANGED <<rows, batch_size, max_concurrent, batch, launchOrder, resp,
                   reran, prevResults, prevResp, logged, sleeps, df>>

\* Lines 84 and 100-102: gather returns the batch's results, the runner extends
\* results, updates the bar and leaves the semaphore. If a task raised, the
\* exception leaves the semaphore block and the run; asyncio.run cancels the rest.
GatherReturn ==
    /\ pc = "gather"
    /\ GatherRaised(tasks) \/ GatherDone(tasks)
    /\ IF GatherRaised(tasks)
       THEN /\ pc' = "error"
            /\ tasks' = [j \in 1..Len(tasks) |->
                            IF tasks[j].state \in {"pending", "inflight"}
                            THEN [tasks[j] EXCEPT !.state = "cancelled"]
                            ELSE tasks[j]]
            /\ UNCHANGED <<results, pbar, doneOrder>>
       ELSE /\ pc' = "sleep"
            /\ results' = results \o GatherResults(tasks, doneOrder)
            /\ pbar' = PbarUpdate(pbar, batch)
            /\ tasks' = <<>>
            /\ doneOrder' = doneOrder
    /\ permits' = Release(permits)
    /\ UNCHANGED <<rows, batch_size, max_concurrent, i, batch, launchOrder, resp,
                   reran, prevResults, prevResp, logged, sleeps, df>>

\* Line 104 and the step of range(0, total_rows, batch_size).
Sleep ==
    /\ pc = "sleep"
    /\ sleeps' = sleeps + 1
    /\ i' = i + batch_size
    /\ pc' = "for"
    /\ UNCHANGED <<rows, batch_size, max_concurrent, batch, permits, tasks, doneOrder,
                   results, pbar, launchOrder, resp, reran, prevResults, prevResp, logged, df>>

\* Lines 107-111: the results are written into the target column and the
\* dataframe is saved.
WriteBack ==
    /\ pc = "done"
    /\ df' = WriteColumn(df, results, target_column)
    /\ pc' = "saved"
    /\ UNCHANGED <<rows, batch_size, max_concurrent, i, batch, permits, tasks, doneOrder,
                   results, pbar, launchOrder, resp, reran, prevResults, prevResp,
                   logged, sleeps>>

\* Lines 119-131: the program is invoked again on the same input file with the
\* same parameters; everything the previous invocation built is created afresh.
Rerun ==
    /\ pc = "saved"
    /\ reran' = TRUE
    /\ prevResults' = results
    /\ prevResp' = resp
    /\ pc' = "for"
    /\ i' = 0
    /\ batch' = <<>>
    /\ permits' = max_concurrent
    /\ tasks' = <<>>
    /\ doneOrder' = <<>>
    /\ results' = <<>>
    /\ pbar' = 0
    /\ launchOrder' = <<>>
    /\ resp' = [k \in 1..Len(rows) |-> "none"]
    /\ logged' = [k \in 1..Len(rows) |-> 0]
    /\ sleeps' = 0
    /\ df' = LoadedDf(rows)
    /\ UNCHANGED <<rows, batch_size, max_concurrent>>

ResolveSome == \E j \in 1..MaxBatch + 1, r \in Responses : Resolve(j, r)

\* One invocation of the program.
Next ==
    \/ ForNext
    \/ Acquire
    \/ StartTask
    \/ ResolveSome
    \/ GatherReturn
    \/ Sleep
    \/ WriteBack

Spec == Init /\ [][Next]_vars

\* The program invoked again and again on the same input.
NextRuns ==
    \/ Next
    \/ Rerun

RunsSpec == Init /\ [][NextRuns]_vars

\* Every call resolves and the event loop keeps running whatever is ready.
Fairness ==
    /\ WF_vars(ForNext)
    /\ WF_vars(Acquire)
    /\ WF_vars(StartTask)
    /\ WF_vars(ResolveSome)
    /\ WF_vars(GatherReturn)
    /\ WF_vars(Sleep)
    /\ WF_vars(WriteBack)

LiveSpec == Spec /\ Fairness

(* ------------------------------------------------------------------ *)
(* Vocabulary of the properties                                         *)
(* ------------------------------------------------------------------ *)
\* Row numbers (1-based) whose call has been posted.
Launched == {launchOrder[n] + 1 : n \in 1..Len(launchOrder)}

\* The empty string or a string of whitespace only.
BlankStr(x) == x.type = "str" /\ \A n \in 1..Len(x.val) : IsSpace(x.val[n])

\* The zero-based number of the batch row k belongs to.
BatchOf(k) == (k - 1) \div batch_size

\* What row k must end up as, given the class of response its call got.
Expected(k) ==
    IF BlankStr(rows[k]) THEN rows[k]
    ELSE IF resp[k] = "usable" THEN Content(PyStr(rows[k]))
    ELSE rows[k]

(* ------------------------------------------------------------------ *)
(* Properties                                                           *)
(* ------------------------------------------------------------------ *)
\* C1: with a ceiling N >= 1, the number of calls in flight never exceeds N.
ConcurrencyBound == max_concurrent >= 1 => InFlight <= max_concurrent

\* C2: the finished run's results have one element per row, and element k is
\* the outcome of row k: the row itself if blank, else what its call yielded.
OrderPreservation ==
    pc = "done" =>
        /\ Len(results) = Len(rows)
        /\ \A k \in 1..Len(rows) : results[k] = Expected(k)

OrderPreservationWitness ==
    /\ pc = "done"
    /\ Len(rows) >= 3
    /\ batch_size = 2
    /\ \E k, m \in 1..Len(rows) :
          /\ k < m
          /\ BatchOf(k) = BatchOf(m)
          /\ rows[k] # rows[m]
          /\ resp[k] = "usable"
          /\ resp[m] = "usable"
          /\ doneOrder # <<>>
    /\ \E k \in 1..Len(rows) : BlankStr(rows[k])

\* C3: when every call of the run has failed, the finished run's results are
\* the input rows, element by element.
GracefulDegradation ==
    (pc = "done" /\ \A k \in 1..Len(rows) : resp[k] # "usable") => results = rows

GracefulDegradationWitness ==
    /\ pc = "done"
    /\ Len(rows) >= 2
    /\ \A k \in 1..Len(rows) : resp[k] = "failure"
    /\ results = rows

\* C4: a row holding "" or only whitespace never has a call posted or answered,
\* and its result, once collected, is the row's own value.
EmptyPassthrough ==
    \A k \in 1..Len(rows) :
        BlankStr(rows[k]) =>
            /\ k \notin Launched
            /\ resp[k] = "none"
            /\ k <= Len(results) => results[k] = rows[k]
            /\ \A j \in 1..Len(tasks) :
                  i + j = k => /\ tasks[j].state \in {"pending", "done"}
                               /\ tasks[j].result = rows[k]

EmptyPassthroughWitness ==
    /\ pc = "done"
    /\ \E k, m, n \in 1..Len(rows) :
          /\ rows[k] = Str(<<>>)
          /\ rows[m] = Str(<<" ">>)
          /\ n \in Launched
          /\ BatchOf(m) = BatchOf(n)
          /\ n < m

\* C5: a row holding the missing-value marker never has a call posted, and its
\* result, once collected, is the marker.
NaNPassthrough ==
    \A k \in 1..Len(rows) :
        rows[k] = NaN =>
            /\ k \notin Launched
            /\ k <= Len(results) => results[k] = NaN

\* C6: no call outcome makes process_text raise: no task fails, the run never
\* ends in error, and a task given a string returns a string.
NeverRaises ==
    /\ pc # "error"
    /\ \A j \in 1..Len(tasks) :
          /\ tasks[j].state \notin {"failed", "cancelled"}
          /\ (tasks[j].state = "done" /\ tasks[j].text.type = "str")
                => tasks[j].result.type = "str"

NeverRaisesWitness ==
    /\ pc = "gather"
    /\ Len(tasks) >= 2
    /\ \A j \in 1..Len(tasks) : tasks[j].state = "done" /\ tasks[j].text.type = "str"
    /\ \E j \in 1..Len(tasks) : resp[i + j] = "failure" /\ tasks[j].result = tasks[j].text
    /\ \E j \in 1..Len(tasks) : resp[i + j] = "usable"

\* C7: a call of a later batch is posted only when every call posted for an
\* earlier batch has been answered, so all calls in flight are of one batch.
BatchesNeverOverlap ==
    \A k \in Launched : \A m \in Launched :
        BatchOf(m) < BatchOf(k) => resp[m] # "none"

BatchesNeverOverlapWitness ==
    /\ batch_size >= 2
    /\ \E k \in Launched : BatchOf(k) >= 1 /\ resp[k] = "none"
    /\ Cardinality({m \in Launched : BatchOf(m) = 0}) >= 2

\* C8: process_batch returns only when every task of the batch has returned,
\* and what it returns has one result per text, the j-th being that of text j.
ProcessBatchOrdered ==
    [][(pc = "gather" /\ pc' = "sleep") =>
          /\ \A j \in 1..Len(tasks) : tasks[j].state = "done"
          /\ Len(doneOrder) = Len(batch)
          /\ Len(results') = Len(results) + Len(batch)
          /\ \A j \in 1..Len(batch) :
                /\ results'[Len(results) + j] = Expected(i + j)
                /\ results'[Len(results) + j] = tasks[j].result]_vars

ProcessBatchOrderedWitness ==
    /\ pc = "sleep"
    /\ Len(batch) = 3
    /\ Len(doneOrder) = 3
    /\ doneOrder[1] > doneOrder[2]
    /\ results[i + 1] # results[i + 2]
    /\ resp[i + 1] = "usable"
    /\ resp[i + 3] = "failure"

\* C9: with a ceiling N >= 1 and every call resolving, the run finishes.
Termination == (max_concurrent >= 1) => <>(pc = "done")

TerminationWitness ==
    /\ pc = "done"
    /\ Len(rows) >= 3
    /\ batch_size = 1
    /\ max_concurrent = 1
    /\ \E k, m \in 1..Len(rows) : resp[k] = "usable" /\ resp[m] = "failure"

\* The remote behaved as a function of the text over both invocations: calls
\* sent the same text got the same class of response.
DeterministicClient ==
    \A k, m \in 1..Len(rows) :
        PyStr(rows[k]) = PyStr(rows[m]) =>
            Cardinality({resp[k], resp[m], prevResp[k], prevResp[m]} \ {"none"}) <= 1

\* C10: when the remote is a function of the text, a further invocation on
\* the same input yields the results of the one before.
Determinism ==
    (reran /\ pc = "done" /\ DeterministicClient) => results = prevResults

DeterminismWitness ==
    /\ reran
    /\ pc = "done"
    /\ DeterministicClient
    /\ batch_size >= 2
    /\ \E k, m \in 1..Len(rows) :
          /\ BatchOf(k) = BatchOf(m)
          /\ resp[k] = "usable"
          /\ resp[m] = "failure"
    /\ results = prevResults


\* C11: the progress counter never decreases, moves only when a batch has fully
\* resolved, then by that batch's row count, and is the row count at the end.
ProgressCounter ==
    /\ [](pc = "done" => pbar = Len(rows))
    /\ [][/\ pbar' >= pbar
          /\ pbar' # pbar =>
                /\ pc = "gather"
                /\ pc' = "sleep"
                /\ \A j \in 1..Len(tasks) : tasks[j].state = "done"
                /\ Len(tasks) = Len(Slice(rows, i, i + batch_size))
                /\ pbar' = pbar + Len(tasks)]_vars

ProgressCounterWitness ==
    /\ pc = "done"
    /\ batch_size = 2
    /\ Len(rows) = 3
    /\ pbar = 3
    /\ \E k \in 1..Len(rows) : resp[k] = "failure"


\* ceil(k / s)
Ceil(k, s) == (k + s - 1) \div s

\* C12: the batch in hand is batch number b = i / batch_size and holds exactly
\* the rows b*s .. min((b+1)*s, k) - 1 in order, so it has s rows unless it is
\* the last; when the loop ends, ceil(k/s) batches have been taken.
Batching ==
    LET s == batch_size
        k == Len(rows)
        b == i \div s
    IN /\ pc \in {"acquire", "gather", "sleep"} =>
            /\ i = b * s
            /\ b < Ceil(k, s)
            /\ Len(batch) = Min((b + 1) * s, k) - b * s
            /\ \A j \in 1..Len(batch) : batch[j] = rows[b * s + j]
            /\ b < Ceil(k, s) - 1 => Len(batch) = s
       /\ pc = "done" => i = Ceil(k, s) * s
       /\ Len(results) <= k

BatchingWitness ==
    /\ pc = "gather"
    /\ batch_size = 2
    /\ Len(rows) = 3
    /\ i = 2
    /\ Len(batch) = 1
    /\ Len(results) = 2


\* C13: a call that fails leaves every sibling task of its batch as it was and
\* the batch running; no task is ever cancelled, every finished task holds its
\* own row's outcome, and every posted call is eventually answered.
NoShortCircuit ==
    /\ [](\A m \in 1..Len(tasks) :
             /\ tasks[m].state # "cancelled"
             /\ tasks[m].state = "done" => tasks[m].result = Expected(i + m))
    /\ [][\A j \in 1..Len(tasks) :
             (tasks[j].state = "inflight" /\ resp'[i + j] = "failure") =>
                 /\ pc' = "gather"
                 /\ Len(tasks') = Len(tasks)
                 /\ \A m \in 1..Len(tasks) : m # j => tasks'[m] = tasks[m]]_vars
    /\ \A k \in 1..MaxRows :
          (k \in Launched) ~> (k <= Len(rows) /\ resp[k] # "none")

NoShortCircuitWitness ==
    /\ pc = "gather"
    /\ Len(doneOrder) >= 2
    /\ resp[i + doneOrder[1]] = "failure"
    /\ resp[i + doneOrder[2]] = "usable"
    /\ tasks[doneOrder[2]].result = Content(PyStr(rows[i + doneOrder[2]]))


\* C14: a resolving call returns the answer's content exactly when the response
\* has status 200 and a well-formed body, returns its text on any other status,
\* and prints one diagnostic line exactly when it does not return the content;
\* rows without a failed call (blank rows, answered rows) have no line printed.
RemoteOutcome ==
    /\ [](\A k \in 1..Len(rows) : logged[k] = IF resp[k] = "failure" THEN 1 ELSE 0)
    /\ [][\A j \in 1..Len(tasks) : \A r \in Responses :
             Resolve(j, r) =>
                 LET text == tasks[j].text
                     good == r.transport = "ok" /\ r.status = 200 /\ r.body = "wellformed"
                 IN /\ tasks'[j].state = "done"
                    /\ tasks'[j].result = Content(PyStr(text)) <=> good
                    /\ (r.transport = "ok" /\ r.status # 200) => tasks'[j].result = text
                    /\ ~good => tasks'[j].result = text
                    /\ logged'[i + j] = logged[i + j] + (IF good THEN 0 ELSE 1)]_vars

RemoteOutcomeWitness ==
    /\ pc = "done"
    /\ \E k, m, n \in 1..Len(rows) :
          /\ resp[k] = "usable" /\ logged[k] = 0 /\ results[k] = Content(PyStr(rows[k]))
          /\ resp[m] = "failure" /\ logged[m] = 1 /\ results[m] = rows[m]
          /\ BlankStr(rows[n]) /\ logged[n] = 0


\* C15: while the runner is in the pacing delay no task exists and no call is
\* in flight; a call is posted only outside the delay, and when a call of batch
\* b is posted exactly b delays have elapsed, one after each resolved batch.
Pacing ==
    /\ [](pc = "sleep" =>
             /\ tasks = <<>>
             /\ InFlight = 0
             /\ \A k \in Launched : resp[k] # "none"
             /\ sleeps = BatchOf(Len(results)))
    /\ [][launchOrder' # launchOrder =>
             LET k == launchOrder'[Len(launchOrder')] + 1
             IN /\ pc = "gather" /\ pc' = "gather"
                /\ sleeps = BatchOf(k)
                /\ Len(results) = sleeps * batch_size]_vars
    /\ [][sleeps' # sleeps => (pc = "sleep" /\ sleeps' = sleeps + 1)]_vars

PacingWitness ==
    /\ pc = "gather"
    /\ sleeps = 2
    /\ batch_size = 1
    /\ InFlight = 1
    /\ Len(launchOrder) = 3


\* C16: calls are posted in increasing row order, a row's call is posted only
\* when every earlier row that needs one has had its call posted, and whatever
\* the completion order each collected result sits at its own row's position.
LaunchInRowOrder ==
    /\ \A a, b \in 1..Len(launchOrder) : a < b => launchOrder[a] < launchOrder[b]
    /\ \A k \in Launched : \A m \in 1..(k - 1) : ~BlankStr(rows[m]) => m \in Launched
    /\ \A k \in 1..Len(results) : results[k] = Expected(k)

LaunchInRowOrderWitness ==
    /\ pc = "sleep"
    /\ Len(launchOrder) = 3
    /\ Len(doneOrder) = 3
    /\ doneOrder[1] = 3
    /\ doneOrder[2] = 1
    /\ resp[1] # resp[3]


\* C17: the semaphore loses a permit only when the runner enters it for a batch
\* and gets it back when that batch has resolved; N - 1 permits are free exactly
\* while a batch runs and N otherwise (so during every pacing delay and at the
\* end), and with N >= 1 the runner never finds the semaphore empty.
SemaphoreAccounting ==
    /\ [](/\ permits >= 0
          /\ permits \in {max_concurrent, max_concurrent - 1}
          /\ pc = "gather" <=> permits = max_concurrent - 1
          /\ pc \in {"sleep", "done", "saved"} => permits = max_concurrent
          /\ (max_concurrent >= 1 /\ pc = "acquire") => permits > 0)
    /\ [][/\ permits' < permits =>
                /\ pc = "acquire" /\ pc' = "gather"
                /\ permits' = permits - 1
          /\ permits' > permits =>
                /\ pc = "gather" /\ pc' = "sleep"
                /\ \A j \in 1..Len(tasks) : tasks[j].state = "done"
                /\ permits' = permits + 1]_vars

SemaphoreAccountingWitness ==
    /\ pc = "sleep"
    /\ max_concurrent = 2
    /\ permits = 2
    /\ sleeps >= 1
    /\ batch_size >= 2


\* Rows of the batches that have fully resolved: a batch has once gather has
\* returned, that is during its pacing delay and ever after.
ResolvedRows ==
    Min((sleeps + (IF pc = "sleep" THEN 1 ELSE 0)) * batch_size, Len(rows))

\* C18: between batches the result list is as long as the progress counter and
\* as the rows of the resolved batches, and element k is row k's outcome; the
\* list grows only when a whole batch has resolved, by that batch's outcomes.
Accumulator ==
    /\ [](pc \in {"for", "acquire", "sleep", "done", "saved"} =>
             /\ Len(results) = pbar
             /\ Len(results) = ResolvedRows
             /\ \A k \in 1..Len(results) : results[k] = Expected(k))
    /\ [][results' # results =>
             /\ pc = "gather"
             /\ \A j \in 1..Len(tasks) : tasks[j].state = "done"
             /\ Len(tasks) = Len(batch)
             /\ Len(results') = Len(results) + Len(batch)
             /\ SubSeq(results', 1, Len(results)) = results
             /\ \A j \in 1..Len(batch) : results'[Len(results) + j] = Expected(i + j)]_vars

AccumulatorWitness ==
    /\ pc = "acquire"
    /\ batch_size = 2
    /\ Len(results) = 2
    /\ pbar = 2
    /\ Len(rows) = 3
    /\ resp[1] = "usable"
    /\ resp[2] = "failure"


\* C19: with a ceiling of 0 no call is ever posted, no task is created and the
\* counter and the results stay empty; with at least one row the runner ends up
\* waiting on the semaphore forever and never finishes, with no row it finishes
\* with empty results.
ZeroCeiling ==
    /\ [](max_concurrent = 0 =>
             /\ launchOrder = <<>>
             /\ tasks = <<>>
             /\ pbar = 0
             /\ results = <<>>
             /\ permits = 0
             /\ Len(rows) >= 1 => pc \in {"for", "acquire"})
    /\ (max_concurrent = 0 /\ Len(rows) >= 1) => <>[](pc = "acquire")
    /\ (max_concurrent = 0 /\ Len(rows) = 0) => <>(pc = "saved" /\ results = <<>>)

ZeroCeilingWitness ==
    /\ max_concurrent = 0
    /\ Len(rows) >= 2
    /\ pc = "acquire"
    /\ Len(batch) >= 2
    /\ \E j \in 1..Len(batch) : NeedsCall(batch[j])


\* C20: no cell is written before the loop has ended with every batch resolved;
\* once the run has written back, the target cell of every row holds that row's
\* result and every other cell, the source column included, is as loaded.
WriteBackFrame ==
    /\ [](pc # "saved" => df = LoadedDf(rows))
    /\ [](pc = "saved" =>
             /\ Len(df) = Len(rows)
             /\ Len(results) = Len(rows)
             /\ \A r \in 1..Len(rows) : \A c \in Columns :
                   df[r][c] = IF c = target_column THEN results[r]
                              ELSE LoadedDf(rows)[r][c])
    /\ [][df' # df =>
             /\ pc = "done"
             /\ tasks = <<>>
             /\ sleeps = Ceil(Len(rows), batch_size)
             /\ Len(results) = Len(rows)]_vars

WriteBackFrameWitness ==
    /\ pc = "saved"
    /\ Len(rows) >= 3
    /\ batch_size = 2
    /\ df # LoadedDf(rows)
    /\ \E r \in 1..Len(rows) :
          /\ resp[r] = "usable"
          /\ df[r][target_column] = Content(PyStr(rows[r]))
          /\ df[r][source_column] = rows[r]
    /\ \E r \in 1..Len(rows) : resp[r] = "failure" /\ df[r][target_column] = rows[r]

====
